

---- MODULE Spec2Model ----
(***************************************************************************)
(* Model of the multi-factor authentication system: the encrypted file     *)
(* repository (storage/file_repository.py), the authentication service     *)
(* (core/auth_service.py), the security configuration and administrator    *)
(* services (core/security_config.py, core/admin_service.py), the audit    *)
(* log (core/logging_service.py) and the GUI handlers that drive them.     *)
(*                                                                         *)
(* Conventions                                                             *)
(*   - a Python str is a sequence of one-character strings, so that len()  *)
(*     and str.strip() are computed and not assumed;                       *)
(*   - None and the empty list are both <<>> (both are falsy in Python);   *)
(*     a user id of None is 0 (also falsy);                                *)
(*   - distances and thresholds are counted in hundredths: 0.5 is 50;      *)
(*   - a service function is an operator from the program state St to the  *)
(*     state after the call and the value returned; an action applies one  *)
(*     whole call.                                                         *)
(*   - writing auth.log, data.bin and admin.key succeeds.                  *)
(***************************************************************************)
EXTENDS Integers, Sequences, FiniteSets, TLC

VARIABLES
    data_model,       \* FileRepository._data_model
    next_user_id,     \* FileRepository._next_user_id
    data_bin,         \* the store file data.bin (its decrypted content)
    auth_log,         \* the lines of auth.log
    admin_key,        \* the content of admin.key
    is_logged_in,     \* AdminView.is_logged_in
    user_tree,        \* AdminView.user_tree: the usernames it shows
    current_user,     \* MFAApp.current_user, shown read-only in ChangePasswordView
    cv2_available,    \* face_recognizer.CV2_AVAILABLE
    facepp_available, \* face_recognizer.FACEPP_AVAILABLE
    app_running,      \* the GUI application (MFAApp) is up
    key_bin,          \* the key file data.key
    cached_data_key,  \* key_manager._cached_data_key
    data_key,         \* FileRepository._data_key
    data_bin_writable,\* the environment: open(data.bin, 'wb') succeeds
    max_issued_id,    \* history: the greatest id an insert has assigned so far
    lastCall          \* history: the last call, its inputs and what it returned

vars == <<data_model, next_user_id, data_bin, auth_log, admin_key, is_logged_in,
          user_tree, current_user, cv2_available, facepp_available, app_running,
          key_bin, cached_data_key, data_key, data_bin_writable, max_issued_id,
          lastCall>>

----------------------------------------------------------------------------
(* Bounds of the model *)

\* No insert is attempted once _next_user_id has passed MaxUserId.
MaxUserId == 2
\* No call is attempted while auth.log holds more than MaxLog lines
\* (clear_logs empties it).
MaxLog == 0

(* Program constants *)

MIN_PASSWORD_LENGTH == 6
PBKDF2_ITERATIONS == 200000
SALT_LENGTH == 32
ADMIN_SALT_LENGTH == 32
CURRENT_VERSION == 1
AES_KEY_LENGTH == 32
DEFAULT_FACE_THRESHOLD == 50
\* compute_distance: distance = (100 - confidence) / 100.0, in hundredths
FULL_CONFIDENCE == 100
\* compute_distance: "return 1.0" on a Face++ error, in hundredths
MAX_DISTANCE == 100
\* set_face_threshold: the accepted range 0.0 .. 1.0, in hundredths
THRESHOLD_MIN == 0
THRESHOLD_MAX == 100

None == <<>>

----------------------------------------------------------------------------
(* Input domains *)

Str(c, n) == [i \in 1..n |-> c]

UserA == <<"a">>
UserB == <<"b">>
\* usernames as typed: empty, padded with a blank, plain
UsernameInputs == { <<>>, UserA, <<" ", "a">>, UserB }
\* usernames as passed to register_user: those, and one of blanks only
RegisterUsernameInputs == UsernameInputs \cup { <<" ">> }
\* usernames with a newline inside, which no check of the services refuses
MultiLineUsernames == { <<"a", "\n", "b">> }

Pwd1 == Str("p", MIN_PASSWORD_LENGTH)
Pwd2 == Str("q", MIN_PASSWORD_LENGTH)
PwdShort == Str("p", MIN_PASSWORD_LENGTH - 1)
\* passwords as typed at registration: empty, too short, acceptable
RegisterPasswordInputs == { <<>>, PwdShort, Pwd1 }
\* passwords as typed at login: empty, the registered one, another one
PasswordInputs == { <<>>, Pwd1, Pwd2 }
\* new passwords as passed to change_password: those, and one too short
NewPasswordInputs == PasswordInputs \cup { PwdShort }

\* what os.urandom returns for n bytes (no operation reads a salt other than
\* to hash with it, so one value stands for them all)
RandomBytes(n) == { <<"random", n>> }

\* the images the camera can deliver
Images == { "img1" }

\* outcomes of capture_and_extract_face: an embedding, or FaceRecognitionError
CaptureOutcomes ==
    [kind : {"ok"}, image : Images, reason : {"none"}]
      \cup [kind : {"error"}, image : {"none"},
            reason : {"User cancelled capture", "Cannot open camera"}]

\* outcomes of compare_faces_facepp: a confidence in 0..100, or FacePPError
CompareOutcomes ==
    [kind : {"ok"}, confidence : {0, 50, 100}]
      \cup [kind : {"error"}, confidence : {0}]

\* thresholds a caller may pass to set_face_threshold
ThresholdInputs == { -1, 0, 100, 101 }

\* float('nan'), the float that is neither less nor greater than any float;
\* the numbers of the model are hundredths, and this one stands for it
NaN == -1000000

AdminPasswordInputs == { <<>>, Str("a", 8), Pwd1 }
\* the positions of the threshold slider (0.3 to 0.7), in hundredths
SliderValues == { 30, 50, 70 }
DEFAULT_ADMIN_PASSWORD == Str("a", 8)

----------------------------------------------------------------------------
(* Python builtins *)

\* a < b on Python floats: False when either is NaN
FloatLess(a, b) == a # NaN /\ b # NaN /\ a < b

IsBlank_never(c) == FALSE

IsBlank(c) == c \in {" ", "\n", "\t"}

RECURSIVE lstrip(_)
lstrip(s) == IF s # <<>> /\ IsBlank(Head(s)) THEN lstrip(Tail(s)) ELSE s

RECURSIVE rstrip(_)
rstrip(s) ==
    IF s # <<>> /\ IsBlank(s[Len(s)]) THEN rstrip(SubSeq(s, 1, Len(s) - 1)) ELSE s

strip(s) == rstrip(lstrip(s))

b64encode(bytes) == <<"b64", bytes>>
b64decode(text) == text[2]

Max(S) == CHOOSE m \in S : \A x \in S : x <= m

----------------------------------------------------------------------------
(* security/crypto.py *)

\* PBKDF2-HMAC-SHA256: a deterministic function of all three arguments,
\* different for different arguments.
derive_key_from_password(password, salt, iterations) ==
    <<"pbkdf2", password, salt, iterations>>

generate_salt(length) == RandomBytes(length)

----------------------------------------------------------------------------
(* storage/models.py *)

User(username, salt, password_hash, face_enabled, face_embedding, id) ==
    [id |-> id, username |-> username, salt |-> salt,
     password_hash |-> password_hash, face_enabled |-> face_enabled,
     face_embedding |-> face_embedding]

SystemConfig == [force_mfa |-> TRUE, face_threshold |-> DEFAULT_FACE_THRESHOLD]

DataModel(version, users, config) ==
    [present |-> TRUE, version |-> version, users |-> users, config |-> config]

\* FileRepository._data_model = None
NoDataModel ==
    [present |-> FALSE, version |-> 0, users |-> <<>>, config |-> SystemConfig]

User_to_dict(user) ==
    [id |-> user.id, username |-> user.username, salt |-> user.salt,
     password_hash |-> user.password_hash, face_enabled |-> user.face_enabled,
     face_embedding |-> user.face_embedding]

User_from_dict(data) ==
    User(data.username, data.salt, data.password_hash, data.face_enabled,
         data.face_embedding, data.id)

SystemConfig_to_dict(config) ==
    [force_mfa |-> config.force_mfa, face_threshold |-> config.face_threshold]

SystemConfig_from_dict(data) ==
    [force_mfa |-> data.force_mfa, face_threshold |-> data.face_threshold]

DataModel_to_dict(dm) ==
    [version |-> dm.version,
     users |-> [i \in 1..Len(dm.users) |-> User_to_dict(dm.users[i])],
     config |-> SystemConfig_to_dict(dm.config)]

DataModel_from_dict(data) ==
    DataModel(data.version,
              [i \in 1..Len(data.users) |-> User_from_dict(data.users[i])],
              SystemConfig_from_dict(data.config))

----------------------------------------------------------------------------
(* storage/schema_migration.py *)

SchemaMigration_migrate(data) == data

----------------------------------------------------------------------------
(* The program state a service call reads and writes, and what a call gives *)
(* back: the state after it, the exception it raised ("none" if it          *)
(* returned) and the value returned.                                        *)

St == [dm |-> data_model, next |-> next_user_id, file |-> data_bin,
       log |-> auth_log, key |-> data_key, writable |-> data_bin_writable]

Returned(st, ret) == [st |-> st, exc |-> "none", ret |-> ret]
Raised(st, exc) == [st |-> st, exc |-> exc, ret |-> None]

NoFile == [exists |-> FALSE, plaintext |-> DataModel_to_dict(NoDataModel),
           tampered |-> FALSE]

----------------------------------------------------------------------------
(* security/crypto.py (AES-GCM) and security/key_manager.py *)

\* AES-GCM authenticates nonce, ciphertext and tag: a file changed after it
\* was written does not decrypt
decrypt_aes_gcm_unauthenticated(key, file) ==
    [exc |-> "none", plaintext |-> file.plaintext]

decrypt_aes_gcm(key, file) ==
    IF file.tampered
    THEN [exc |-> "InvalidTag", plaintext |-> None]
    ELSE [exc |-> "none", plaintext |-> file.plaintext]

generate_random_key(length) == CHOOSE k \in RandomBytes(length) : TRUE

\* the key manager: its cache and the key file
KeyManager == [cached |-> cached_data_key, file |-> key_bin]

load_or_init_data_key(km) ==
    IF km.cached # None
    THEN [km |-> km, key |-> km.cached]
    ELSE IF km.file # None
    THEN [km |-> [km EXCEPT !.cached = km.file], key |-> km.file]
    ELSE LET k == generate_random_key(AES_KEY_LENGTH)
         IN  [km |-> [cached |-> k, file |-> k], key |-> k]

clear_cached_key(km) == [km EXCEPT !.cached = None]

----------------------------------------------------------------------------
(* storage/file_repository.py *)

FileRepository_save_data_nowrite(st) == Returned(st, None)

FileRepository_save_data(st) ==
    IF ~st.dm.present \/ st.key = None
    THEN Raised(st, "ValueError")
    ELSE IF ~st.writable
    THEN Raised(st, "OSError")
    ELSE Returned([st EXCEPT !.file = [exists |-> TRUE,
                                       plaintext |-> DataModel_to_dict(st.dm),
                                       tampered |-> FALSE]], None)

\* the id _next_user_id gets from the users just loaded
NextIdAfterLoad(users, next) ==
    IF users # <<>>
    THEN Max({users[i].id : i \in {j \in 1..Len(users) : users[j].id # 0}}) + 1
    ELSE next

\* the key is kept first; a file that fails authentication leaves the rest
FileRepository_load_data(st0, key) ==
    LET st == [st0 EXCEPT !.key = key]
        decrypted == decrypt_aes_gcm(key, st.file)
    IN  IF ~st.file.exists
        THEN FileRepository_save_data(
                 [st EXCEPT !.dm = DataModel(CURRENT_VERSION, <<>>, SystemConfig)])
        ELSE IF decrypted.exc # "none"
        THEN Raised(st, decrypted.exc)
        ELSE LET dm == DataModel_from_dict(
                           SchemaMigration_migrate(decrypted.plaintext))
             IN  Returned([st EXCEPT !.dm = dm,
                                     !.next = NextIdAfterLoad(dm.users, st.next)],
                          None)

FileRepository_get_user_by_username_none(dm, username) == 0

\* the position of the first user with that name, 0 for None
FileRepository_get_user_by_username(dm, username) ==
    IF ~dm.present
    THEN 0
    ELSE LET hits == {i \in 1..Len(dm.users) : dm.users[i].username = username}
         IN  IF hits = {} THEN 0 ELSE CHOOSE i \in hits : \A j \in hits : i <= j

FileRepository_get_all_users(dm) == IF ~dm.present THEN <<>> ELSE dm.users

\* the id save_user gives a user whose id is None
AssignedId(st) == st.next

FileRepository_save_user(st, user) ==
    IF ~st.dm.present
    THEN Raised(st, "ValueError")
    ELSE IF FileRepository_get_user_by_username(st.dm, user.username) # 0
    THEN Raised(st, "ValueError")
    ELSE LET fresh == user.id = 0
             saved == IF fresh THEN [user EXCEPT !.id = AssignedId(st)] ELSE user
             st1 == [st EXCEPT
                       !.next = IF fresh THEN st.next + 1 ELSE st.next,
                       !.dm.users = Append(st.dm.users, saved)]
             r == FileRepository_save_data(st1)
         IN  [r EXCEPT !.ret = saved]

FileRepository_update_user(st, user) ==
    IF ~st.dm.present
    THEN Raised(st, "ValueError")
    ELSE LET i == FileRepository_get_user_by_username(st.dm, user.username)
         IN  IF i = 0
             THEN Raised(st, "ValueError")
             ELSE FileRepository_save_data([st EXCEPT !.dm.users[i] = user])

RemoveAt(seq, i) == SubSeq(seq, 1, i - 1) \o SubSeq(seq, i + 1, Len(seq))

FileRepository_delete_user(st, username) ==
    IF ~st.dm.present
    THEN Raised(st, "ValueError")
    ELSE LET i == FileRepository_get_user_by_username(st.dm, username)
         IN  IF i = 0
             THEN Raised(st, "ValueError")
             ELSE FileRepository_save_data(
                      [st EXCEPT !.dm.users = RemoveAt(st.dm.users, i)])

\* a repository that hands out a default configuration, whatever is stored
FileRepository_get_system_config_default(dm) == SystemConfig

FileRepository_get_system_config(dm) ==
    IF ~dm.present THEN SystemConfig ELSE dm.config

FileRepository_save_system_config(st, config) ==
    IF ~st.dm.present
    THEN Raised(st, "ValueError")
    ELSE FileRepository_save_data([st EXCEPT !.dm.config = config])

----------------------------------------------------------------------------
(* core/logging_service.py *)

\* one line of auth.log (the timestamp is left out)
LogLine(username, result) == [username |-> username, result |-> result]

\* the entry is written as text followed by a newline: a newline inside the
\* username ends a line of the file there (that line has no result field)
IsMultiLine(s) == \E i \in 1..Len(s) : s[i] = "\n"
FirstNewline(s) == CHOOSE i \in 1..Len(s) : s[i] = "\n" /\ \A j \in 1..(i - 1) : s[j] # "\n"

RECURSIVE EntryLines(_, _)
EntryLines(username, result) ==
    IF ~IsMultiLine(username)
    THEN <<LogLine(username, result)>>
    ELSE LET i == FirstNewline(username)
         IN  <<LogLine(SubSeq(username, 1, i - 1), "none")>>
               \o EntryLines(SubSeq(username, i + 1, Len(username)), result)

log_auth_event(st, username, result) ==
    [st EXCEPT !.log = st.log \o EntryLines(username, result)]

log_login_success_takes_id(st, username) ==
    [log_auth_event(st, username, "SUCCESS") EXCEPT !.next = st.next + 1]

log_login_success(st, username) == log_auth_event(st, username, "SUCCESS")
log_login_fail_password(st, username) ==
    log_auth_event(st, username, "FAIL_WRONG_PASSWORD")
log_login_fail_user_not_found(st, username) ==
    log_auth_event(st, username, "FAIL_USER_NOT_FOUND")
log_login_fail_face(st, username) ==
    log_auth_event(st, username, "FAIL_FACE_MISMATCH")
log_password_changed(st, username) ==
    log_auth_event(st, username, "PASSWORD_CHANGED")
log_user_registered(st, username) ==
    log_auth_event(st, username, "USER_REGISTERED")

clear_logs(st) == [st EXCEPT !.log = <<>>]

----------------------------------------------------------------------------
(* security/face_recognizer.py *)

\* (available, message)
is_face_recognition_available(cv2, facepp) ==
    IF ~cv2 THEN <<FALSE, "OpenCV not installed">>
    ELSE IF ~facepp THEN <<FALSE, "Face++ API not configured or unavailable">>
    ELSE <<TRUE, "Face++ face recognition features available">>

\* extract_face_embedding: ["FACEPP_IMAGE", image_data.hex()]
FaceEmbedding(image) == <<"FACEPP_IMAGE", image>>

IsFaceppImage(vec) == Len(vec) = 2 /\ vec[1] = "FACEPP_IMAGE"

\* The distance returned, or the ValueError raised. `compare` is what the
\* Face++ Compare API does with the two images of this call.
compute_distance(vec1, vec2, facepp, compare) ==
    IF IsFaceppImage(vec1) /\ IsFaceppImage(vec2)
    THEN IF facepp
         THEN IF compare.kind = "ok"
              THEN [raised |-> FALSE,
                    distance |-> FULL_CONFIDENCE - compare.confidence]
              ELSE [raised |-> FALSE, distance |-> MAX_DISTANCE]
         ELSE [raised |-> TRUE, distance |-> 0]
    ELSE [raised |-> TRUE, distance |-> 0]

----------------------------------------------------------------------------
(* core/auth_service.py *)

\* a message that tells the caller the username is not registered
UserNotFoundMessage_revealing == <<"user does not exist">>

\* the message of a failed login: the username is not registered
UserNotFoundMessage == <<"wrong username or password">>
\* the message of a failed login: the password does not match
WrongPasswordMessage == <<"wrong username or password">>

\* AuthResult, with the steps the call went through
AuthResult(success, message, user, steps) ==
    [success |-> success, message |-> message, user |-> user, steps |-> steps]

\* a comparison that rejects a distance equal to the threshold
FacePasses_strict(distance, threshold) == distance < threshold

\* the face-mismatch test of authenticate_user and of
\* verify_user_face_for_password_change
FacePasses(distance, threshold) == distance <= threshold

PasswordHashOf_of_salt_only(password, salt_b64) ==
    b64encode(derive_key_from_password(<<>>, b64decode(salt_b64),
                                       PBKDF2_ITERATIONS))

PasswordHashOf(password, salt_b64) ==
    b64encode(derive_key_from_password(password, b64decode(salt_b64),
                                       PBKDF2_ITERATIONS))

register_user(st, username, password, salt) ==
    IF username = <<>> \/ strip(username) = <<>>
    THEN Returned(st, AuthResult(FALSE, <<"username is empty">>, None, <<>>))
    ELSE IF password = <<>> \/ Len(password) < MIN_PASSWORD_LENGTH
    THEN Returned(st, AuthResult(FALSE, <<"password shorter than 6">>, None, <<>>))
    ELSE LET name == strip(username)
         IN  IF FileRepository_get_user_by_username(st.dm, name) # 0
             THEN Returned(st, AuthResult(FALSE, <<"username exists", name>>,
                                          None, <<>>))
             ELSE LET salt_b64 == b64encode(salt)
                      user == User(name, salt_b64, PasswordHashOf(password, salt_b64),
                                   FALSE, None, 0)
                      r == FileRepository_save_user(st, user)
                  IN  IF r.exc # "none"
                      THEN Returned(r.st, AuthResult(FALSE,
                                        <<"registration failed", r.exc>>, None, <<>>))
                      ELSE Returned(log_user_registered(r.st, name),
                                    AuthResult(TRUE, <<"registered", name>>,
                                               r.ret, <<>>))

authenticate_password_only(st, username, password) ==
    IF username = <<>> \/ password = <<>>
    THEN Returned(st, AuthResult(FALSE, <<"username and password must not be empty">>,
                                 None, <<>>))
    ELSE LET name == strip(username)
             i == FileRepository_get_user_by_username(st.dm, name)
         IN  IF i = 0
             THEN Returned(log_login_fail_user_not_found(st, name),
                           AuthResult(FALSE, UserNotFoundMessage,
                                      None, <<"lookup">>))
             ELSE LET user == st.dm.users[i]
                  IN  IF PasswordHashOf(password, user.salt) # user.password_hash
                      THEN Returned(log_login_fail_password(st, name),
                                    AuthResult(FALSE, WrongPasswordMessage,
                                               None, <<"lookup", "password">>))
                      ELSE Returned(log_login_success(st, name),
                                    AuthResult(TRUE, <<"login ok", name>>, user,
                                               <<"lookup", "password">>))

FaceStep_abort_is_mismatch(user, threshold, cv2, facepp, capture, compare) ==
    IF ~is_face_recognition_available(cv2, facepp)[1]
    THEN [verdict |-> "unavailable", steps |-> <<>>, distance |-> 0]
    ELSE IF capture.kind # "ok"
    THEN [verdict |-> "mismatch", steps |-> <<"capture">>, distance |-> MAX_DISTANCE]
    ELSE LET d == compute_distance(user.face_embedding, FaceEmbedding(capture.image),
                                   facepp, compare)
         IN  IF d.raised
             THEN [verdict |-> "error", steps |-> <<"capture", "compare">>,
                   distance |-> 0]
             ELSE IF FacePasses(d.distance, threshold)
             THEN [verdict |-> "pass", steps |-> <<"capture", "compare">>,
                   distance |-> d.distance]
             ELSE [verdict |-> "mismatch", steps |-> <<"capture", "compare">>,
                   distance |-> d.distance]

\* the face step shared by authenticate_user and
\* verify_user_face_for_password_change, from is_face_recognition_available on:
\* "unavailable", "capture failed", "error" (an exception), "pass" or "mismatch",
\* with the steps taken
FaceStep(user, threshold, cv2, facepp, capture, compare) ==
    IF ~is_face_recognition_available(cv2, facepp)[1]
    THEN [verdict |-> "unavailable", steps |-> <<>>, distance |-> 0]
    ELSE IF capture.kind # "ok"
    THEN [verdict |-> "capture failed", steps |-> <<"capture">>, distance |-> 0]
    ELSE LET d == compute_distance(user.face_embedding, FaceEmbedding(capture.image),
                                   facepp, compare)
         IN  IF d.raised
             THEN [verdict |-> "error", steps |-> <<"capture", "compare">>,
                   distance |-> 0]
             ELSE IF FacePasses(d.distance, threshold)
             THEN [verdict |-> "pass", steps |-> <<"capture", "compare">>,
                   distance |-> d.distance]
             ELSE [verdict |-> "mismatch", steps |-> <<"capture", "compare">>,
                   distance |-> d.distance]

authenticate_user(st, username, password, cv2, facepp, capture, compare) ==
    LET p == authenticate_password_only(st, username, password)
        config == FileRepository_get_system_config(p.st.dm)
        user == p.ret.user
    IN  IF ~p.ret.success
        THEN p
        ELSE IF ~config.force_mfa
        THEN Returned(p.st, [p.ret EXCEPT !.steps = @ \o <<"policy">>])
        ELSE IF ~user.face_enabled \/ user.face_embedding = <<>>
        THEN Returned(p.st, AuthResult(FALSE, <<"MFA required but no face enrolled">>,
                                       None, p.ret.steps \o <<"policy">>))
        ELSE LET f == FaceStep(user, config.face_threshold, cv2, facepp,
                               capture, compare)
                 steps == p.ret.steps \o <<"policy">> \o f.steps
             IN  CASE f.verdict = "unavailable" ->
                        Returned(p.st, AuthResult(FALSE,
                            <<"face recognition unavailable">>, None, steps))
                   [] f.verdict = "capture failed" ->
                        Returned(p.st, AuthResult(FALSE,
                            <<"face capture failed", capture.reason>>, None, steps))
                   [] f.verdict = "error" ->
                        Returned(p.st, AuthResult(FALSE,
                            <<"authentication failed">>, None, steps))
                   [] f.verdict = "pass" ->
                        Returned(log_auth_event(p.st, username, "MFA_SUCCESS"),
                                 AuthResult(TRUE, <<"MFA login ok", username>>,
                                            user, steps))
                   [] OTHER ->
                        Returned(log_login_fail_face(p.st, username),
                                 AuthResult(FALSE,
                                     <<"face mismatch", f.distance,
                                       config.face_threshold>>, None, steps))

verify_user_face_for_password_change(st, username, cv2, facepp, capture, compare) ==
    LET i == FileRepository_get_user_by_username(st.dm, username)
    IN  IF i = 0
        THEN Returned(st, AuthResult(FALSE, <<"user does not exist">>, None, <<>>))
        ELSE LET user == st.dm.users[i]
                 config == FileRepository_get_system_config(st.dm)
                 f == FaceStep(user, config.face_threshold, cv2, facepp,
                               capture, compare)
             IN  IF ~user.face_enabled \/ user.face_embedding = <<>>
                 THEN Returned(st, AuthResult(FALSE, <<"user has no face enrolled">>,
                                              None, <<>>))
                 ELSE CASE f.verdict = "unavailable" ->
                             Returned(st, AuthResult(FALSE,
                                 <<"face recognition unavailable">>, None, f.steps))
                        [] f.verdict = "capture failed" ->
                             Returned(st, AuthResult(FALSE,
                                 <<"face capture failed", capture.reason>>, None,
                                 f.steps))
                        [] f.verdict = "error" ->
                             Returned(st, AuthResult(FALSE,
                                 <<"face verification failed">>, None, f.steps))
                        [] f.verdict = "pass" ->
                             Returned(st, AuthResult(TRUE,
                                 <<"face verified", username>>, user, f.steps))
                        [] OTHER ->
                             Returned(st, AuthResult(FALSE,
                                 <<"face mismatch", f.distance,
                                   config.face_threshold>>, None, f.steps))

change_password(st, username, old_password, new_password, salt) ==
    IF username = <<>> \/ old_password = <<>> \/ new_password = <<>>
    THEN Returned(st, AuthResult(FALSE, <<"all fields are required">>, None, <<>>))
    ELSE IF Len(new_password) < MIN_PASSWORD_LENGTH
    THEN Returned(st, AuthResult(FALSE, <<"new password shorter than 6">>,
                                 None, <<>>))
    ELSE IF old_password = new_password
    THEN Returned(st, AuthResult(FALSE, <<"new password equals old password">>,
                                 None, <<>>))
    ELSE LET name == strip(username)
             a == authenticate_password_only(st, name, old_password)
         IN  IF ~a.ret.success
             THEN Returned(a.st, AuthResult(FALSE,
                               <<"old password verification failed">>, None,
                               a.ret.steps))
             ELSE LET new_salt_b64 == b64encode(salt)
                      user == [a.ret.user EXCEPT
                                 !.salt = new_salt_b64,
                                 !.password_hash =
                                     PasswordHashOf(new_password, new_salt_b64)]
                      r == FileRepository_update_user(a.st, user)
                  IN  IF r.exc # "none"
                      THEN Returned(r.st, AuthResult(FALSE,
                                        <<"password change failed", r.exc>>, None,
                                        a.ret.steps))
                      ELSE Returned(log_password_changed(r.st, name),
                                    AuthResult(TRUE, <<"password changed", name>>,
                                               None, a.ret.steps \o <<"update">>))

register_user_with_face(st, username, password, salt, cv2, facepp, capture) ==
    LET g == register_user(st, username, password, salt)
    IN  IF ~g.ret.success
        THEN g
        ELSE IF ~is_face_recognition_available(cv2, facepp)[1]
        THEN Returned(g.st, AuthResult(FALSE, <<"face recognition unavailable">>,
                                       None, <<>>))
        ELSE IF capture.kind # "ok"
        THEN Returned(g.st, AuthResult(FALSE,
                          <<"face capture failed", capture.reason>>, None,
                          <<"capture">>))
        ELSE LET user == [g.ret.user EXCEPT
                            !.face_enabled = TRUE,
                            !.face_embedding = FaceEmbedding(capture.image)]
                 r == FileRepository_update_user(g.st, user)
             IN  IF r.exc # "none"
                 THEN Returned(r.st, AuthResult(FALSE,
                                   <<"registration failed", r.exc>>, None,
                                   <<"capture">>))
                 ELSE Returned(r.st, AuthResult(TRUE,
                                   <<"registered with face", username>>, user,
                                   <<"capture">>))

----------------------------------------------------------------------------
(* core/security_config.py *)

get_force_mfa(dm) == FileRepository_get_system_config(dm).force_mfa

set_force_mfa(st, enabled) ==
    LET config == [FileRepository_get_system_config(st.dm) EXCEPT
                     !.force_mfa = enabled]
        r == FileRepository_save_system_config(st, config)
    IN  Returned(r.st, r.exc = "none")

ThresholdAccepted(threshold) ==
    ~(FloatLess(threshold, THRESHOLD_MIN) \/ FloatLess(THRESHOLD_MAX, threshold))

set_face_threshold(st, threshold) ==
    IF ~ThresholdAccepted(threshold)
    THEN Returned(st, FALSE)
    ELSE LET config == [FileRepository_get_system_config(st.dm) EXCEPT
                          !.face_threshold = threshold]
             r == FileRepository_save_system_config(st, config)
         IN  Returned(r.st, r.exc = "none")

----------------------------------------------------------------------------
(* core/admin_service.py *)

NoAdminKey == [exists |-> FALSE, salt |-> None, hash |-> None]

\* (the file afterwards, the value returned)
init_admin_key_overwrites(key, admin_password, salt) ==
    <<[exists |-> TRUE, salt |-> b64encode(salt),
       hash |-> b64encode(derive_key_from_password(admin_password, salt,
                                                   PBKDF2_ITERATIONS))],
      ~key.exists>>

init_admin_key(key, admin_password, salt) ==
    IF key.exists
    THEN <<key, FALSE>>
    ELSE <<[exists |-> TRUE, salt |-> b64encode(salt),
            hash |-> b64encode(derive_key_from_password(admin_password, salt,
                                                        PBKDF2_ITERATIONS))],
           TRUE>>

\* (the file afterwards, AdminLoginResult.success)
admin_login(key, password, salt) ==
    LET file == IF ~key.exists
                THEN init_admin_key(key, DEFAULT_ADMIN_PASSWORD, salt)[1]
                ELSE key
        computed == derive_key_from_password(password, b64decode(file.salt),
                                             PBKDF2_ITERATIONS)
    IN  <<file, computed = b64decode(file.hash)>>

list_users(dm) ==
    LET users == FileRepository_get_all_users(dm)
    IN  [i \in 1..Len(users) |->
            [id |-> users[i].id, username |-> users[i].username,
             face_enabled |-> users[i].face_enabled,
             has_face_embedding |-> users[i].face_embedding # <<>>]]

\* lines[-count:] if len(lines) > count else lines
get_recent_logs(lines, count) ==
    IF Len(lines) > count
    THEN IF count = 0 THEN lines
         ELSE SubSeq(lines, Len(lines) - count + 1, Len(lines))
    ELSE lines

view_auth_logs(lines, count) == get_recent_logs(lines, count)

reset_user_face_keeps_flag(st, username) ==
    LET i == FileRepository_get_user_by_username(st.dm, username)
    IN  IF i = 0
        THEN Returned(st, FALSE)
        ELSE LET user == [st.dm.users[i] EXCEPT !.face_embedding = None]
                 r == FileRepository_update_user(st, user)
             IN  Returned(r.st, r.exc = "none")

reset_user_face(st, username) ==
    LET i == FileRepository_get_user_by_username(st.dm, username)
    IN  IF i = 0
        THEN Returned(st, FALSE)
        ELSE LET user == [st.dm.users[i] EXCEPT !.face_enabled = FALSE,
                                                !.face_embedding = None]
                 r == FileRepository_update_user(st, user)
             IN  Returned(r.st, r.exc = "none")

delete_user(st, username) ==
    LET r == FileRepository_delete_user(st, username)
    IN  Returned(r.st, r.exc = "none")

----------------------------------------------------------------------------
(* The record of a call: what was passed, what came back, and the state it  *)
(* started in.                                                              *)

NoCapture == [kind |-> "none", image |-> "none", reason |-> "none"]
NoCompare == [kind |-> "none", confidence |-> 0]

Contains(seq, x) == \E i \in 1..Len(seq) : seq[i] = x

\* The camera and the Face++ Compare API answer only when the call asks them:
\* `probe` is the call with both answering, and tells what it asks.
AnyCapture == CHOOSE c \in CaptureOutcomes : c.kind = "ok"
AnyCompare == CHOOSE c \in CompareOutcomes : c.kind = "ok"
CapturesAsked(probe) ==
    IF Contains(probe.ret.steps, "capture") THEN CaptureOutcomes ELSE {NoCapture}
ComparesAsked(probe) ==
    IF Contains(probe.ret.steps, "compare") THEN CompareOutcomes ELSE {NoCompare}

Call(op, username, password, arg, success, message, steps, capture, compare, new_id) ==
    [op |-> op, username |-> username, password |-> password, arg |-> arg,
     success |-> success, message |-> message, steps |-> steps,
     capture |-> IF Contains(steps, "capture") THEN capture ELSE NoCapture,
     compare |-> IF Contains(steps, "compare") THEN compare ELSE NoCompare,
     new_id |-> new_id,
     log_before |-> Len(auth_log),
     issued_before |-> max_issued_id,
     admin |-> is_logged_in]

\* a call that returns an AuthResult
AuthCall(op, username, password, arg, r, capture, compare) ==
    Call(op, username, password, arg, r.ret.success, r.ret.message, r.ret.steps,
         capture, compare, 0)

\* a registration: the id of the user it returns is on record
RegisterCall(op, username, password, r, capture) ==
    Call(op, username, password, <<>>, r.ret.success, r.ret.message, r.ret.steps,
         capture, NoCompare, IF r.ret.success THEN r.ret.user.id ELSE 0)

\* a call that returns a bool
BoolCall(op, username, arg, r) ==
    Call(op, username, <<>>, arg, r.ret, <<>>, <<>>, NoCapture, NoCompare, 0)

NoCall == Call("none", <<>>, <<>>, <<>>, FALSE, <<>>, <<>>, NoCapture, NoCompare, 0)

UserIds(dm) == {dm.users[i].id : i \in 1..Len(dm.users)}

\* what a caller that catches the exception sees of it
ExcMessage(r) == IF r.exc = "none" THEN <<>> ELSE <<r.exc>>

\* the state after the call, and the call on record
Apply(r, call) ==
    /\ Len(auth_log) <= MaxLog
    /\ data_model' = r.st.dm
    /\ next_user_id' = r.st.next
    /\ data_bin' = r.st.file
    /\ auth_log' = r.st.log
    /\ data_key' = r.st.key
    /\ max_issued_id' = Max({max_issued_id} \cup UserIds(r.st.dm))
    /\ lastCall' = call

----------------------------------------------------------------------------
(* The state after construction: FileRepository.__init__, no file written,  *)
(* the face libraries as the installation has them.                         *)

Init ==
    /\ data_model = NoDataModel
    /\ next_user_id = 1
    /\ data_bin = NoFile
    /\ auth_log = <<>>
    /\ admin_key = NoAdminKey
    /\ is_logged_in = FALSE
    /\ user_tree = <<>>
    /\ current_user = None
    /\ cv2_available \in BOOLEAN
    /\ facepp_available \in BOOLEAN
    /\ cv2_available \/ facepp_available
    /\ app_running = FALSE
    /\ key_bin = None
    /\ cached_data_key = None
    /\ data_key = None
    /\ data_bin_writable = TRUE
    /\ max_issued_id = 0
    /\ lastCall = NoCall

GuiFrame == UNCHANGED <<admin_key, is_logged_in, user_tree, current_user,
                        cv2_available, facepp_available, app_running,
                        data_bin_writable>>

Frame == GuiFrame /\ UNCHANGED <<key_bin, cached_data_key>>

----------------------------------------------------------------------------
(* The service functions, called directly (as the test suites do) *)

\* load_or_init_data_key() and then load_data(data_key)
LoadData ==
    LET k == load_or_init_data_key(KeyManager)
        r == FileRepository_load_data(St, k.key)
    IN  /\ Apply(r, Call("load_data", <<>>, <<>>, <<>>, r.exc = "none", ExcMessage(r), <<>>,
                         NoCapture, NoCompare, 0))
        /\ key_bin' = k.km.file
        /\ cached_data_key' = k.km.cached
        /\ GuiFrame

RegisterUser ==
    \E username \in RegisterUsernameInputs, password \in RegisterPasswordInputs,
       salt \in generate_salt(SALT_LENGTH) :
        LET r == register_user(St, username, password, salt)
        IN  /\ next_user_id <= MaxUserId
            /\ Apply(r, RegisterCall("register_user", username, password, r,
                                     NoCapture))
            /\ Frame

RegisterUserWithFace ==
    \E username \in UsernameInputs, password \in RegisterPasswordInputs,
       salt \in generate_salt(SALT_LENGTH) :
      \E capture \in CapturesAsked(register_user_with_face(St, username, password,
                        salt, cv2_available, facepp_available, AnyCapture)) :
        LET r == register_user_with_face(St, username, password, salt,
                                         cv2_available, facepp_available, capture)
        IN  /\ next_user_id <= MaxUserId
            /\ Apply(r, RegisterCall("register_user_with_face", username, password,
                                     r, capture))
            /\ Frame

AuthenticatePasswordOnly ==
    \E username \in UsernameInputs, password \in PasswordInputs :
        LET r == authenticate_password_only(St, username, password)
        IN  /\ Apply(r, AuthCall("authenticate_password_only", username, password,
                                 <<>>, r, NoCapture, NoCompare))
            /\ Frame

\* register_user and authenticate_password_only with a username of two lines
RegisterUserMultiLine ==
    \E username \in MultiLineUsernames, password \in RegisterPasswordInputs,
       salt \in generate_salt(SALT_LENGTH) :
        LET r == register_user(St, username, password, salt)
        IN  /\ next_user_id <= MaxUserId
            /\ Apply(r, RegisterCall("register_user", username, password, r,
                                     NoCapture))
            /\ Frame

AuthenticatePasswordOnlyMultiLine ==
    \E username \in MultiLineUsernames, password \in PasswordInputs :
        LET r == authenticate_password_only(St, username, password)
        IN  /\ Apply(r, AuthCall("authenticate_password_only", username, password,
                                 <<>>, r, NoCapture, NoCompare))
            /\ Frame

\* init_admin_key(admin_password) and admin_login(password), called directly
InitAdminKey ==
    \E admin_password \in AdminPasswordInputs,
       salt \in generate_salt(ADMIN_SALT_LENGTH) :
        LET r == init_admin_key(admin_key, admin_password, salt)
        IN  /\ Apply(Returned(St, None),
                     Call("init_admin_key", <<>>, admin_password, <<>>, r[2],
                          <<>>, <<>>, NoCapture, NoCompare, 0))
            /\ admin_key' = r[1]
            /\ UNCHANGED <<is_logged_in, user_tree, current_user, app_running,
                           cv2_available, facepp_available, key_bin,
                           cached_data_key, data_bin_writable>>

AdminLogin ==
    \E password \in AdminPasswordInputs, salt \in generate_salt(ADMIN_SALT_LENGTH) :
        LET r == admin_login(admin_key, password, salt)
        IN  /\ Apply(Returned(St, None),
                     Call("admin_login", <<>>, password, <<>>, r[2], <<>>, <<>>,
                          NoCapture, NoCompare, 0))
            /\ admin_key' = r[1]
            /\ UNCHANGED <<is_logged_in, user_tree, current_user, app_running,
                           cv2_available, facepp_available, key_bin,
                           cached_data_key, data_bin_writable>>

\* view_auth_logs(count), called directly; the call on record keeps the count
\* and the lines returned
LogViewCounts == { 0, 1, 2 }

ViewAuthLogs ==
    \E count \in LogViewCounts :
        /\ lastCall' = Call("view_auth_logs", <<>>, <<>>, count, TRUE,
                            view_auth_logs(auth_log, count), <<>>, NoCapture,
                            NoCompare, 0)
        /\ UNCHANGED <<data_model, next_user_id, data_bin, auth_log, data_key,
                       max_issued_id>>
        /\ Frame

AuthenticateUser ==
    \E username \in UsernameInputs, password \in PasswordInputs :
      LET probe == authenticate_user(St, username, password, cv2_available,
                                     facepp_available, AnyCapture, AnyCompare)
      IN
      \E capture \in CapturesAsked(probe), compare \in ComparesAsked(probe) :
        LET r == authenticate_user(St, username, password, cv2_available,
                                   facepp_available, capture, compare)
        IN  /\ Apply(r, AuthCall("authenticate_user", username, password, <<>>, r,
                                 capture, compare))
            /\ Frame

ChangePassword ==
    \E username \in UsernameInputs, old_password \in PasswordInputs,
       new_password \in NewPasswordInputs, salt \in generate_salt(SALT_LENGTH) :
        LET r == change_password(St, username, old_password, new_password, salt)
        IN  /\ Apply(r, AuthCall("change_password", username, old_password,
                                 new_password, r, NoCapture, NoCompare))
            /\ Frame

VerifyUserFaceForPasswordChange ==
    \E username \in UsernameInputs :
      LET probe == verify_user_face_for_password_change(St, username,
                       cv2_available, facepp_available, AnyCapture, AnyCompare)
      IN
      \E capture \in CapturesAsked(probe), compare \in ComparesAsked(probe) :
        LET r == verify_user_face_for_password_change(St, username, cv2_available,
                     facepp_available, capture, compare)
        IN  /\ Apply(r, AuthCall("verify_user_face_for_password_change", username,
                                 <<>>, <<>>, r, capture, compare))
            /\ Frame

SetForceMfa ==
    \E enabled \in BOOLEAN :
        LET r == set_force_mfa(St, enabled)
        IN  /\ Apply(r, BoolCall("set_force_mfa", <<>>, enabled, r))
            /\ Frame

SetFaceThreshold ==
    \E threshold \in ThresholdInputs :
        LET r == set_face_threshold(St, threshold)
        IN  /\ Apply(r, BoolCall("set_face_threshold", <<>>, threshold, r))
            /\ Frame

\* set_face_threshold(float('nan'))
SetFaceThresholdNaN ==
    LET r == set_face_threshold(St, NaN)
    IN  /\ Apply(r, BoolCall("set_face_threshold", <<>>, NaN, r))
        /\ Frame

ResetUserFace ==
    \E username \in UsernameInputs :
        LET r == reset_user_face(St, username)
        IN  /\ Apply(r, BoolCall("reset_user_face", username, <<>>, r))
            /\ Frame

DeleteUser ==
    \E username \in UsernameInputs :
        LET r == delete_user(St, username)
        IN  /\ Apply(r, BoolCall("delete_user", username, <<>>, r))
            /\ Frame

ClearLogs ==
    /\ auth_log # <<>>
    /\ auth_log' = clear_logs(St).log
    /\ lastCall' = Call("clear_logs", <<>>, <<>>, <<>>, TRUE, <<>>, <<>>, NoCapture,
                        NoCompare, 0)
    /\ UNCHANGED <<data_model, next_user_id, data_bin, data_key, max_issued_id>>
    /\ Frame

\* FileRepository(): a new repository object, nothing loaded
NewFileRepository ==
    /\ ~app_running
    /\ data_model # NoDataModel
    /\ data_model' = NoDataModel
    /\ data_key' = None
    /\ next_user_id' = 1
    /\ lastCall' = Call("FileRepository", <<>>, <<>>, <<>>, TRUE, <<>>, <<>>,
                        NoCapture, NoCompare, 0)
    /\ UNCHANGED <<data_bin, auth_log, max_issued_id>>
    /\ Frame

\* the parts of the store file: 12 bytes of nonce, the ciphertext, 16 of tag
FileParts == {"nonce", "ciphertext", "tag"}

\* someone with access to the disk changes one byte of the store file
TamperFile ==
    \E part \in FileParts :
        /\ data_bin.exists
        /\ ~data_bin.tampered
        /\ data_bin' = [data_bin EXCEPT !.tampered = TRUE]
        /\ lastCall' = Call("tamper", <<>>, <<>>, <<part>>, TRUE, <<>>, <<>>,
                            NoCapture, NoCompare, 0)
        /\ UNCHANGED <<data_model, next_user_id, auth_log, data_key, max_issued_id>>
        /\ Frame

\* the store file stops, or starts again, to be writable for the process
\* (its permissions, a full disk): open(data_path, 'wb') raises an OSError
DataBinWritableChanges ==
    /\ data_bin' = data_bin
    /\ data_bin_writable' = ~data_bin_writable
    /\ lastCall' = Call("chmod", <<>>, <<>>, <<>>, TRUE, <<>>, <<>>,
                        NoCapture, NoCompare, 0)
    /\ UNCHANGED <<data_model, next_user_id, auth_log, data_key, max_issued_id,
                   admin_key, is_logged_in, user_tree, current_user,
                   cv2_available, facepp_available, app_running, key_bin,
                   cached_data_key>>

\* the store file comes back from a later release of the program, which
\* wrote it with the same key under the next schema version
StoreOfLaterRelease ==
    /\ data_bin.exists
    /\ ~data_bin.tampered
    /\ data_bin.plaintext.version = CURRENT_VERSION
    /\ data_bin' = [data_bin EXCEPT !.plaintext.version = CURRENT_VERSION + 1]
    /\ lastCall' = Call("later release", <<>>, <<>>, <<>>, TRUE, <<>>, <<>>,
                        NoCapture, NoCompare, 0)
    /\ UNCHANGED <<data_model, next_user_id, auth_log, data_key, max_issued_id>>
    /\ Frame

\* The queries hand out the objects of the DataModel themselves:
\* get_user_by_username returns the element of users, get_all_users a new
\* list of the same elements, AuthResult.user the element the login found,
\* get_system_config the config object. A caller that assigns to a field of
\* what it obtained assigns to the field of the DataModel.
UserQueries == {"get_user_by_username", "get_all_users", "AuthResult.user"}

SetFieldOfObtainedUser ==
    \E query \in UserQueries, username \in {UserA, UserB}, value \in BOOLEAN :
        LET i == FileRepository_get_user_by_username(data_model, username)
        IN  /\ i # 0
            /\ data_model' = [data_model EXCEPT !.users[i].face_enabled = value]
            /\ lastCall' = Call("set field", username, <<>>, <<query, value>>, TRUE,
                                <<>>, <<>>, NoCapture, NoCompare, 0)
            /\ UNCHANGED <<next_user_id, data_bin, auth_log, data_key,
                           max_issued_id>>
            /\ Frame

\* without a DataModel get_system_config returns a new SystemConfig()
SetFieldOfObtainedConfig ==
    \E value \in BOOLEAN :
        /\ data_model' = IF data_model.present
                         THEN [data_model EXCEPT !.config.force_mfa = value]
                         ELSE data_model
        /\ lastCall' = Call("set field", <<>>, <<>>, <<"get_system_config", value>>,
                            TRUE, <<>>, <<>>, NoCapture, NoCompare, 0)
        /\ UNCHANGED <<next_user_id, data_bin, auth_log, data_key, max_issued_id>>
        /\ Frame

----------------------------------------------------------------------------
(* The application: main.py and the handlers of gui/ *)

LibFrame == UNCHANGED <<cv2_available, facepp_available, data_bin_writable>>

EnvFrame == LibFrame /\ UNCHANGED <<key_bin, cached_data_key>>

\* a handler that shows an error box and returns before calling a service
Rejected(op, username, password, arg, reason) ==
    Apply(Returned(St, None),
          Call(op, username, password, arg, FALSE, <<"rejected", reason>>, <<>>,
               NoCapture, NoCompare, 0))

\* main(): MFAApp.__init__ and init_data in a new process, whose key cache
\* and repository start empty; init_data catches what load_data raises
Main ==
    LET k == load_or_init_data_key([KeyManager EXCEPT !.cached = None])
        r == FileRepository_load_data(
                 [St EXCEPT !.dm = NoDataModel, !.next = 1, !.key = None], k.key)
    IN  /\ ~app_running
        /\ Apply(r, Call("main", <<>>, <<>>, <<>>, r.exc = "none", ExcMessage(r), <<>>,
                         NoCapture, NoCompare, 0))
        /\ key_bin' = k.km.file
        /\ cached_data_key' = k.km.cached
        /\ app_running' = TRUE
        /\ is_logged_in' = FALSE
        /\ user_tree' = <<>>
        /\ current_user' = None
        /\ UNCHANGED admin_key
        /\ LibFrame

\* on_closing(): clear_cached_key(), then the window is destroyed; the
\* repository object stays as it is until the process is gone
on_closing ==
    /\ app_running
    /\ app_running' = FALSE
    /\ cached_data_key' = clear_cached_key(KeyManager).cached
    /\ is_logged_in' = FALSE
    /\ user_tree' = <<>>
    /\ current_user' = None
    /\ lastCall' = Call("on_closing", <<>>, <<>>, <<>>, TRUE, <<>>, <<>>,
                        NoCapture, NoCompare, 0)
    /\ UNCHANGED <<data_model, next_user_id, data_key, key_bin, data_bin, auth_log,
                   admin_key, max_issued_id>>
    /\ LibFrame

RegisterView_on_register ==
    \E entry \in UsernameInputs, password \in RegisterPasswordInputs,
       confirm_password \in {Pwd1, PwdShort}, enable_face \in BOOLEAN,
       salt \in generate_salt(SALT_LENGTH) :
      LET op == "RegisterView._on_register"
          username == strip(entry)
      IN  /\ app_running
          /\ next_user_id <= MaxUserId
          /\ IF username = <<>>
             THEN Rejected(op, username, password, enable_face, "username")
             ELSE IF password = <<>>
             THEN Rejected(op, username, password, enable_face, "password")
             ELSE IF Len(password) < MIN_PASSWORD_LENGTH
             THEN Rejected(op, username, password, enable_face, "short")
             ELSE IF password # confirm_password
             THEN Rejected(op, username, password, enable_face, "confirm")
             ELSE IF enable_face
             THEN \E capture \in CapturesAsked(register_user_with_face(St,
                                     username, password, salt, cv2_available,
                                     facepp_available, AnyCapture)) :
                    LET r == register_user_with_face(St, username, password, salt,
                                 cv2_available, facepp_available, capture)
                    IN  Apply(r, RegisterCall(op, username, password, r, capture))
             ELSE LET r == register_user(St, username, password, salt)
                  IN  Apply(r, RegisterCall(op, username, password, r, NoCapture))
          /\ UNCHANGED <<admin_key, is_logged_in, user_tree, current_user,
                         app_running>>
          /\ EnvFrame

LoginView_on_login ==
    \E entry \in UsernameInputs, password \in PasswordInputs :
      LET op == "LoginView._on_login"
          username == strip(entry)
          probe == authenticate_user(St, username, password, cv2_available,
                                     facepp_available, AnyCapture, AnyCompare)
      IN  /\ app_running
          /\ IF username = <<>>
             THEN /\ Rejected(op, username, password, <<>>, "username")
                  /\ UNCHANGED current_user
             ELSE IF password = <<>>
             THEN /\ Rejected(op, username, password, <<>>, "password")
                  /\ UNCHANGED current_user
             ELSE \E capture \in CapturesAsked(probe),
                     compare \in ComparesAsked(probe) :
                    LET r == authenticate_user(St, username, password,
                                 cv2_available, facepp_available, capture, compare)
                    IN  /\ Apply(r, AuthCall(op, username, password, <<>>, r,
                                             capture, compare))
                        /\ current_user' = IF r.ret.success THEN username
                                           ELSE current_user
          /\ UNCHANGED <<admin_key, is_logged_in, user_tree, app_running>>
          /\ EnvFrame

\* what the username entry of ChangePasswordView can hold
ChangePasswordEntries ==
    IF current_user = None THEN UsernameInputs ELSE {current_user}

ChangePasswordView_on_change_password ==
    \E entry \in ChangePasswordEntries, old_password \in PasswordInputs,
       new_password \in PasswordInputs \cup {PwdShort},
       confirm_password \in {Pwd1, Pwd2}, salt \in generate_salt(SALT_LENGTH) :
      LET op == "ChangePasswordView._on_change_password"
          username == strip(entry)
          probe == verify_user_face_for_password_change(St, username,
                       cv2_available, facepp_available, AnyCapture, AnyCompare)
      IN  /\ app_running
          /\ IF username = <<>>
             THEN Rejected(op, username, old_password, new_password, "username")
             ELSE IF old_password = <<>>
             THEN Rejected(op, username, old_password, new_password, "old")
             ELSE IF new_password = <<>>
             THEN Rejected(op, username, old_password, new_password, "new")
             ELSE IF Len(new_password) < MIN_PASSWORD_LENGTH
             THEN Rejected(op, username, old_password, new_password, "short")
             ELSE IF new_password # confirm_password
             THEN Rejected(op, username, old_password, new_password, "confirm")
             ELSE IF old_password = new_password
             THEN Rejected(op, username, old_password, new_password, "same")
             ELSE \E capture \in CapturesAsked(probe),
                     compare \in ComparesAsked(probe) :
                    LET v == verify_user_face_for_password_change(St, username,
                                 cv2_available, facepp_available, capture, compare)
                        c == change_password(v.st, username, old_password,
                                             new_password, salt)
                    IN  IF v.ret.success
                        THEN Apply(c, Call(op, username, old_password,
                                           new_password, c.ret.success,
                                           c.ret.message,
                                           v.ret.steps \o c.ret.steps,
                                           capture, compare, 0))
                        ELSE Apply(v, AuthCall(op, username, old_password,
                                               new_password, v, capture, compare))
          /\ UNCHANGED <<admin_key, is_logged_in, user_tree, current_user,
                         app_running>>
          /\ EnvFrame

\* the usernames _refresh_user_list puts in the tree
UserTreeOf(dm) ==
    LET users == list_users(dm) IN [i \in 1..Len(users) |-> users[i].username]

AdminLoginDialog_on_login ==
    \E password \in AdminPasswordInputs, salt \in generate_salt(ADMIN_SALT_LENGTH) :
      LET op == "AdminLoginDialog._on_login"
          r == admin_login(admin_key, password, salt)
      IN  /\ app_running
          /\ ~is_logged_in
          /\ IF password = <<>>
             THEN /\ Rejected(op, <<>>, password, <<>>, "password")
                  /\ UNCHANGED <<admin_key, is_logged_in, user_tree>>
             ELSE /\ Apply(Returned(St, None),
                           Call(op, <<>>, password, <<>>, r[2], <<>>, <<>>,
                                NoCapture, NoCompare, 0))
                  /\ admin_key' = r[1]
                  /\ is_logged_in' = (is_logged_in \/ r[2])
                  /\ user_tree' = IF r[2] THEN UserTreeOf(data_model)
                                  ELSE user_tree
          /\ UNCHANGED <<current_user, app_running>>
          /\ EnvFrame

AdminView_refresh_user_list ==
    /\ app_running
    /\ is_logged_in
    /\ Apply(Returned(St, None),
             Call("AdminView._refresh_user_list", <<>>, <<>>,
                  UserTreeOf(data_model), TRUE, <<>>, <<>>, NoCapture, NoCompare,
                  0))
    /\ user_tree' = UserTreeOf(data_model)
    /\ UNCHANGED <<admin_key, is_logged_in, current_user, app_running>>
    /\ EnvFrame

\* the values of the log-count box
LogCounts == { 0, 1 }

AdminView_refresh_logs ==
    \E count \in LogCounts :
        /\ app_running
        /\ is_logged_in
        /\ Apply(Returned(St, None),
                 Call("AdminView._refresh_logs", <<>>, <<>>,
                      view_auth_logs(auth_log, count), TRUE, <<>>, <<>>,
                      NoCapture, NoCompare, 0))
        /\ UNCHANGED <<admin_key, is_logged_in, user_tree, current_user,
                       app_running>>
        /\ EnvFrame

\* _reset_user_face and _delete_user: a selected row, a confirmation box
AdminView_reset_user_face ==
    \E row \in 1..Len(user_tree), confirmed \in BOOLEAN :
      LET op == "AdminView._reset_user_face"
          username == user_tree[row]
          r == reset_user_face(St, username)
      IN  /\ app_running
          /\ is_logged_in
          /\ IF ~confirmed
             THEN /\ Rejected(op, username, <<>>, <<>>, "cancelled")
                  /\ UNCHANGED user_tree
             ELSE /\ Apply(r, BoolCall(op, username, <<>>, r))
                  /\ user_tree' = IF r.ret THEN UserTreeOf(r.st.dm) ELSE user_tree
          /\ UNCHANGED <<admin_key, is_logged_in, current_user, app_running>>
          /\ EnvFrame

AdminView_delete_user ==
    \E row \in 1..Len(user_tree), confirmed \in BOOLEAN :
      LET op == "AdminView._delete_user"
          username == user_tree[row]
          r == delete_user(St, username)
      IN  /\ app_running
          /\ is_logged_in
          /\ IF ~confirmed
             THEN /\ Rejected(op, username, <<>>, <<>>, "cancelled")
                  /\ UNCHANGED user_tree
             ELSE /\ Apply(r, BoolCall(op, username, <<>>, r))
                  /\ user_tree' = IF r.ret THEN UserTreeOf(r.st.dm) ELSE user_tree
          /\ UNCHANGED <<admin_key, is_logged_in, current_user, app_running>>
          /\ EnvFrame

AdminView_logout ==
    /\ app_running
    /\ is_logged_in
    /\ Apply(Returned(St, None),
             Call("AdminView._logout", <<>>, <<>>, <<>>, TRUE, <<>>, <<>>,
                  NoCapture, NoCompare, 0))
    /\ is_logged_in' = FALSE
    /\ UNCHANGED <<admin_key, user_tree, current_user, app_running>>
    /\ EnvFrame

\* the check box holds the stored value; a click asks for the other one
SecurityConfigView_on_force_mfa_changed ==
    \E confirmed \in BOOLEAN :
      LET op == "SecurityConfigView._on_force_mfa_changed"
          new_value == ~get_force_mfa(data_model)
          r == set_force_mfa(St, new_value)
      IN  /\ app_running
          /\ IF ~confirmed
             THEN Rejected(op, <<>>, <<>>, new_value, "cancelled")
             ELSE Apply(r, BoolCall(op, <<>>, new_value, r))
          /\ UNCHANGED <<admin_key, is_logged_in, user_tree, current_user,
                         app_running>>
          /\ EnvFrame

SecurityConfigView_apply_threshold ==
    \E new_threshold \in SliderValues, confirmed \in BOOLEAN :
      LET op == "SecurityConfigView._apply_threshold"
          r == set_face_threshold(St, new_threshold)
      IN  /\ app_running
          /\ IF ~confirmed
             THEN Rejected(op, <<>>, <<>>, new_threshold, "cancelled")
             ELSE Apply(r, BoolCall(op, <<>>, new_threshold, r))
          /\ UNCHANGED <<admin_key, is_logged_in, user_tree, current_user,
                         app_running>>
          /\ EnvFrame

----------------------------------------------------------------------------

Next ==
    \/ LoadData
    \/ ViewAuthLogs
    \/ DataBinWritableChanges
    \/ InitAdminKey
    \/ AdminLogin
    \/ RegisterUserMultiLine
    \/ AuthenticatePasswordOnlyMultiLine
    \/ SetFaceThresholdNaN
    \/ SetFieldOfObtainedUser
    \/ SetFieldOfObtainedConfig
    \/ TamperFile
    \/ StoreOfLaterRelease
    \/ NewFileRepository
    \/ ClearLogs
    \/ RegisterUser
    \/ RegisterUserWithFace
    \/ AuthenticatePasswordOnly
    \/ AuthenticateUser
    \/ ChangePassword
    \/ VerifyUserFaceForPasswordChange
    \/ SetForceMfa
    \/ SetFaceThreshold
    \/ ResetUserFace
    \/ DeleteUser
    \/ Main
    \/ on_closing
    \/ RegisterView_on_register
    \/ LoginView_on_login
    \/ ChangePasswordView_on_change_password
    \/ AdminLoginDialog_on_login
    \/ AdminView_refresh_user_list
    \/ AdminView_refresh_logs
    \/ AdminView_reset_user_face
    \/ AdminView_delete_user
    \/ AdminView_logout
    \/ SecurityConfigView_on_force_mfa_changed
    \/ SecurityConfigView_apply_threshold

Spec == Init /\ [][Next]_vars

----------------------------------------------------------------------------
(* Logging in: the store is filled by registrations, the policy is set, and  *)
(* users log in.                                                            *)

NextLogin ==
    \/ LoadData
    \/ ClearLogs
    \/ RegisterUser
    \/ RegisterUserWithFace
    \/ SetForceMfa
    \/ SetFaceThreshold
    \/ AuthenticatePasswordOnly
    \/ AuthenticateUser
    \/ VerifyUserFaceForPasswordChange

SpecLogin == Init /\ [][NextLogin]_vars

----------------------------------------------------------------------------
(* Changing a password in the application: users register, the policy is    *)
(* switched, users log in and change their passwords.                       *)

NextChange ==
    \/ Main
    \/ ClearLogs
    \/ RegisterView_on_register
    \/ LoginView_on_login
    \/ SecurityConfigView_on_force_mfa_changed
    \/ ChangePasswordView_on_change_password

SpecChange == Init /\ [][NextChange]_vars

----------------------------------------------------------------------------
(* Administration in the application: the admin tab and the security        *)
(* configuration tab.                                                       *)

NextAdmin ==
    \/ Main
    \/ on_closing
    \/ ClearLogs
    \/ RegisterView_on_register
    \/ AdminLoginDialog_on_login
    \/ AdminView_refresh_user_list
    \/ AdminView_refresh_logs
    \/ AdminView_reset_user_face
    \/ AdminView_delete_user
    \/ AdminView_logout
    \/ SecurityConfigView_on_force_mfa_changed
    \/ SecurityConfigView_apply_threshold

SpecAdmin == Init /\ [][NextAdmin]_vars

----------------------------------------------------------------------------
(* The repository: inserts, deletes and loads.                              *)

NextRepo ==
    \/ LoadData
    \/ NewFileRepository
    \/ ClearLogs
    \/ RegisterUser
    \/ RegisterUserWithFace
    \/ ResetUserFace
    \/ DeleteUser

SpecRepo == Init /\ [][NextRepo]_vars

----------------------------------------------------------------------------
(* The user collection: every service call that writes a user.              *)

NextUsers ==
    \/ LoadData
    \/ ClearLogs
    \/ RegisterUser
    \/ RegisterUserWithFace
    \/ ChangePassword
    \/ ResetUserFace
    \/ DeleteUser

\* an installation with both face libraries
InitInstalled == Init /\ cv2_available /\ facepp_available

SpecUsers == InitInstalled /\ [][NextUsers]_vars

----------------------------------------------------------------------------
(* Registration and password change, with what they accept and refuse.      *)

NextPasswords ==
    \/ LoadData
    \/ ClearLogs
    \/ RegisterUser
    \/ ChangePassword
    \/ DeleteUser

SpecPasswords == InitInstalled /\ [][NextPasswords]_vars

----------------------------------------------------------------------------
(* The security configuration and its two setters.                          *)

NextConfig ==
    \/ LoadData
    \/ NewFileRepository
    \/ ClearLogs
    \/ RegisterUser
    \/ SetForceMfa
    \/ SetFaceThreshold
    \/ SetFaceThresholdNaN

SpecConfig == InitInstalled /\ [][NextConfig]_vars

----------------------------------------------------------------------------
(* The audit log and the calls that write to it.                            *)

NextLog ==
    \/ LoadData
    \/ ClearLogs
    \/ RegisterUser
    \/ AuthenticatePasswordOnly
    \/ RegisterUserMultiLine
    \/ AuthenticatePasswordOnlyMultiLine

SpecLog == InitInstalled /\ [][NextLog]_vars

----------------------------------------------------------------------------
(* The admin credential file and the two functions that open it.            *)

NextAdminKey ==
    \/ LoadData
    \/ ClearLogs
    \/ RegisterUser
    \/ InitAdminKey
    \/ AdminLogin

SpecAdminKey == InitInstalled /\ [][NextAdminKey]_vars

----------------------------------------------------------------------------
(* The mutating operations when the store file cannot be written.           *)

NextWriteFails ==
    \/ LoadData
    \/ ClearLogs
    \/ DataBinWritableChanges
    \/ RegisterUser
    \/ DeleteUser
    \/ SetForceMfa

SpecWriteFails == InitInstalled /\ [][NextWriteFails]_vars

----------------------------------------------------------------------------
(* Face enrolment: the public operations that write face data or decide     *)
(* whether it is asked for, without delete_user.  The console does not go  *)
(* quiet: the log is emptied when it is full and the administrator goes on  *)
(* switching the policy, so that a behaviour never ends in a state where    *)
(* operations are still possible.                                           *)

NextEnrol ==
    \/ LoadData
    \/ ClearLogs
    \/ RegisterUser
    \/ RegisterUserWithFace
    \/ ResetUserFace
    \/ SetForceMfa

SpecEnrol ==
    /\ InitInstalled
    /\ [][NextEnrol]_vars
    /\ WF_vars(ClearLogs)
    /\ WF_vars(SetForceMfa)

----------------------------------------------------------------------------
(* Logins against a store with users, some of them with face data.          *)

NextLoginOnly ==
    \/ LoadData
    \/ ClearLogs
    \/ RegisterUserWithFace
    \/ SetForceMfa
    \/ AuthenticatePasswordOnly
    \/ AuthenticateUser

SpecLoginOnly == InitInstalled /\ [][NextLoginOnly]_vars

----------------------------------------------------------------------------
(* Reading the audit log back.                                              *)

NextLogView ==
    \/ LoadData
    \/ ClearLogs
    \/ RegisterUser
    \/ AuthenticatePasswordOnly
    \/ ViewAuthLogs

SpecLogView == InitInstalled /\ [][NextLogView]_vars

----------------------------------------------------------------------------
(* The store file: what the repository writes, and what happens to the file *)
(* between two runs.                                                        *)

NextStore ==
    \/ LoadData
    \/ NewFileRepository
    \/ ClearLogs
    \/ TamperFile
    \/ StoreOfLaterRelease
    \/ RegisterUser
    \/ ResetUserFace
    \/ DeleteUser
    \/ SetForceMfa

SpecStore == InitInstalled /\ [][NextStore]_vars

----------------------------------------------------------------------------
(* Callers of the repository that keep and change what a query returned.    *)

NextCallers ==
    \/ LoadData
    \/ NewFileRepository
    \/ ClearLogs
    \/ RegisterUser
    \/ DeleteUser
    \/ SetForceMfa
    \/ SetFieldOfObtainedUser
    \/ SetFieldOfObtainedConfig

SpecCallers == InitInstalled /\ [][NextCallers]_vars

----------------------------------------------------------------------------
(* The application from start to shutdown, over a store file that may have  *)
(* been changed between two runs.                                           *)

NextStartup ==
    \/ Main
    \/ on_closing
    \/ ClearLogs
    \/ TamperFile
    \/ RegisterView_on_register
    \/ SecurityConfigView_on_force_mfa_changed

SpecStartup == InitInstalled /\ [][NextStartup]_vars


----------------------------------------------------------------------------
(* Vocabulary of the properties *)

Registered(name) ==
    \E i \in 1..Len(data_model.users) : data_model.users[i].username = name

UserNamed(name) ==
    data_model.users[CHOOSE i \in 1..Len(data_model.users) :
                         data_model.users[i].username = name]

\* the submitted password, hashed with the stored salt, equals the stored hash
CorrectPassword(user, password) ==
    user.password_hash =
        b64encode(derive_key_from_password(password, b64decode(user.salt),
                                           PBKDF2_ITERATIONS))

Enrolled(user) == user.face_enabled /\ user.face_embedding # <<>>

\* the lines the last call appended to auth.log
EventsOfCall == SubSeq(auth_log, lastCall.log_before + 1, Len(auth_log))

LoggedByCall(result) ==
    \E i \in 1..Len(EventsOfCall) : EventsOfCall[i].result = result

\* the last call is a login of a registered user with the right password
LoginWithCorrectPassword ==
    /\ lastCall.op = "authenticate_user"
    /\ lastCall.username # <<>>
    /\ Registered(strip(lastCall.username))
    /\ CorrectPassword(UserNamed(strip(lastCall.username)), lastCall.password)

----------------------------------------------------------------------------
(* C1 *)

\* C1 (as claimed): with force_mfa = true, a login of a registered user who has
\* no enrolled face template, with the correct password, returns a failure, and
\* no line with result SUCCESS is appended to auth.log during the call.
C1_NoSuccessEventWhenNotEnrolled ==
    ( /\ LoginWithCorrectPassword
      /\ data_model.config.force_mfa
      /\ ~Enrolled(UserNamed(strip(lastCall.username))) )
    => ( /\ ~lastCall.success
         /\ lastCall.message = <<"MFA required but no face enrolled">>
         /\ ~LoggedByCall("SUCCESS") )

----------------------------------------------------------------------------
(* C2 *)

\* C2 (as claimed): every call of authenticate_user that gets past the check
\* for empty input appends exactly one line to auth.log.
C2_ExactlyOneEventPerLogin ==
    ( /\ lastCall.op = "authenticate_user"
      /\ lastCall.username # <<>>
      /\ lastCall.password # <<>> )
    => Len(EventsOfCall) = 1

----------------------------------------------------------------------------
(* C3 *)

\* C3 (as claimed): whatever accepted threshold is stored, a login during which
\* the Face++ Compare API raised an error is a failure.
C3_ServiceErrorNeverALogin ==
    ( /\ lastCall.op = "authenticate_user"
      /\ lastCall.compare.kind = "error" )
    => ~lastCall.success

----------------------------------------------------------------------------
(* C4 *)

\* what the caller of a login sees
CallerVisible(r) == <<r.ret.success, r.ret.message>>

LoginResult(username, password) ==
    CallerVisible(authenticate_user(St, username, password, cv2_available,
                                    facepp_available, AnyCapture, AnyCompare))

\* the username is not registered / is registered and the password is wrong
UnknownUser(username) == ~Registered(strip(username))
WrongPassword(username, password) ==
    /\ Registered(strip(username))
    /\ ~CorrectPassword(UserNamed(strip(username)), password)

\* C4 (as claimed): in every state of the store, a login with a username that is
\* not registered and a login with a registered username and a wrong password
\* return the same result: success = false and the same message.
C4_SameFailureForAnyInput ==
    \A u1 \in UsernameInputs, u2 \in UsernameInputs,
       p1 \in PasswordInputs, p2 \in PasswordInputs :
        (UnknownUser(u1) /\ WrongPassword(u2, p2))
        => /\ LoginResult(u1, p1) = LoginResult(u2, p2)
           /\ ~LoginResult(u1, p1)[1]

\* C4 (amended): the same, for usernames and passwords that are not empty (an
\* empty username or password is rejected before the lookup, with another
\* message).
C4_SameFailureForUnknownUserAndWrongPassword ==
    \A u1 \in UsernameInputs, u2 \in UsernameInputs,
       p1 \in PasswordInputs, p2 \in PasswordInputs :
        ( /\ u1 # <<>> /\ p1 # <<>> /\ u2 # <<>> /\ p2 # <<>>
          /\ UnknownUser(u1) /\ WrongPassword(u2, p2) )
        => /\ LoginResult(u1, p1) = LoginResult(u2, p2)
           /\ ~LoginResult(u1, p1)[1]

\* a login with an unknown username has failed while another user is registered
C4_Witness ==
    /\ lastCall.op = "authenticate_user"
    /\ lastCall.username # <<>> /\ lastCall.password # <<>>
    /\ UnknownUser(lastCall.username)
    /\ ~lastCall.success
    /\ \E u2 \in UsernameInputs, p2 \in PasswordInputs :
          u2 # <<>> /\ p2 # <<>> /\ WrongPassword(u2, p2)

----------------------------------------------------------------------------
(* C5 *)

\* the distance the Face++ Compare API reported (none when it raised)
ReportedDistance(compare) == FULL_CONFIDENCE - compare.confidence

\* C5 (as claimed): a login succeeds exactly when the user exists, the password
\* hashed with the stored salt equals the stored hash, and either force_mfa is
\* false, or force_mfa is true, the user is enrolled, the capture succeeded and
\* the Compare API reported a distance <= face_threshold.
C5_LoginSucceedsIff ==
    lastCall.op = "authenticate_user"
    => ( lastCall.success
         <=> /\ lastCall.username # <<>>
             /\ Registered(strip(lastCall.username))
             /\ CorrectPassword(UserNamed(strip(lastCall.username)),
                                lastCall.password)
             /\ \/ ~data_model.config.force_mfa
                \/ /\ data_model.config.force_mfa
                   /\ Enrolled(UserNamed(strip(lastCall.username)))
                   /\ lastCall.capture.kind = "ok"
                   /\ lastCall.compare.kind = "ok"
                   /\ ReportedDistance(lastCall.compare)
                          <= data_model.config.face_threshold )

----------------------------------------------------------------------------
(* C6 *)

FaceOps == {"authenticate_user", "verify_user_face_for_password_change"}

IsFaceMismatch(message) == Len(message) = 3 /\ message[1] = "face mismatch"

\* C6: in the face step of a login and of the face verification before a
\* password change, whenever the Compare API reported a distance, the call
\* succeeds exactly when distance <= face_threshold (so distance = threshold is
\* a pass) and ends in a face mismatch exactly when distance > face_threshold.
C6_DistanceEqualToThresholdPasses ==
    (lastCall.op \in FaceOps /\ lastCall.compare.kind = "ok")
    => /\ lastCall.success
            <=> ReportedDistance(lastCall.compare)
                    <= data_model.config.face_threshold
       /\ IsFaceMismatch(lastCall.message)
            <=> ReportedDistance(lastCall.compare)
                    > data_model.config.face_threshold

\* a face step has passed with a distance equal to the threshold
C6_Witness ==
    /\ lastCall.op \in FaceOps
    /\ lastCall.compare.kind = "ok"
    /\ ReportedDistance(lastCall.compare) = data_model.config.face_threshold
    /\ lastCall.success

----------------------------------------------------------------------------
(* C7 *)

IsPrefix(s, t) == Len(s) <= Len(t) /\ s = SubSeq(t, 1, Len(s))

LoginSteps == <<"lookup", "password", "policy", "capture", "compare">>

\* C7: a login goes through its steps in the order user lookup, password check,
\* force_mfa policy check, face capture, face comparison; the capture and the
\* comparison are invoked only after the password check succeeded for an
\* existing user, and only when force_mfa is true and the user is enrolled.
C7_FaceStepAfterPasswordAndPolicy ==
    lastCall.op = "authenticate_user"
    => /\ IsPrefix(lastCall.steps, LoginSteps)
       /\ ( \/ Contains(lastCall.steps, "capture")
            \/ Contains(lastCall.steps, "compare")
            \/ lastCall.capture.kind # "none"
            \/ lastCall.compare.kind # "none" )
          => /\ LoginWithCorrectPassword
             /\ data_model.config.force_mfa
             /\ Enrolled(UserNamed(strip(lastCall.username)))

\* a login has gone through all five steps
C7_Witness ==
    /\ lastCall.op = "authenticate_user"
    /\ lastCall.steps = LoginSteps
    /\ lastCall.capture.kind = "ok"
    /\ lastCall.compare.kind # "none"

----------------------------------------------------------------------------
(* C8 *)

ChangePasswordFlow == "ChangePasswordView._on_change_password"

\* the form let the request through to the services
PassedTheForm == ~(Len(lastCall.message) = 2 /\ lastCall.message[1] = "rejected")

----------------------------------------------------------------------------
(* C9 *)

AdminOps ==
    { "AdminView._refresh_user_list", "AdminView._refresh_logs",
      "AdminView._reset_user_face", "AdminView._delete_user",
      "SecurityConfigView._on_force_mfa_changed",
      "SecurityConfigView._apply_threshold" }

----------------------------------------------------------------------------
(* C10 *)

RegisterOps == {"register_user", "register_user_with_face"}

----------------------------------------------------------------------------
(* C11 *)

\* how many stored users of dm have that username
CountNamed(dm, name) ==
    Cardinality({i \in 1..Len(dm.users) : dm.users[i].username = name})

UsernamesUnique ==
    \A i, j \in 1..Len(data_model.users) :
        data_model.users[i].username = data_model.users[j].username => i = j

\* a registration under a username that a stored user already has
RegistersExistingName ==
    /\ lastCall'.op \in RegisterOps
    /\ CountNamed(data_model, strip(lastCall'.username)) > 0

\* C11: whatever register_user, register_user_with_face, change_password,
\* reset_user_face and delete_user have done, no two stored users share a
\* username; a registration under a username already stored fails and leaves
\* exactly one user with that name.
C11_UsernamesUnique ==
    /\ []UsernamesUnique
    /\ [][RegistersExistingName
            => /\ ~lastCall'.success
               /\ CountNamed(data_model', strip(lastCall'.username)) = 1]_vars

\* a registration of a stored username has just been refused, after a
\* password change, with one user of that name in the store
C11_Witness ==
    /\ lastCall.op \in RegisterOps
    /\ ~lastCall.success
    /\ lastCall.message = <<"username exists", strip(lastCall.username)>>
    /\ CountNamed(data_model, strip(lastCall.username)) = 1
    /\ \E i \in 1..Len(data_model.users) :
           /\ data_model.users[i].username = strip(lastCall.username)
           /\ CorrectPassword(data_model.users[i], Pwd2)

----------------------------------------------------------------------------
(* C12 *)

LoadOps == {"load_data", "main"}

\* a load of a store file of which one byte was changed after save_data wrote it
LoadsTamperedFile ==
    /\ lastCall'.op \in LoadOps
    /\ data_bin.exists
    /\ data_bin.tampered

\* C12: for every store file save_data has written and every change of one
\* byte of it (in the nonce, the ciphertext or the tag), load_data with the
\* same key fails with the integrity error and builds no user list from the
\* file: the repository's DataModel is what it was before the call.
C12_TamperedFileFailsToLoad ==
    [][LoadsTamperedFile
         => /\ ~lastCall'.success
            /\ lastCall'.message = <<"InvalidTag">>
            /\ data_model' = data_model]_vars

\* a new repository has just failed to load a tampered file that holds users
C12_Witness ==
    /\ lastCall.op = "load_data"
    /\ ~lastCall.success
    /\ lastCall.message = <<"InvalidTag">>
    /\ data_bin.tampered
    /\ Len(data_bin.plaintext.users) > 0
    /\ data_model = NoDataModel
    /\ data_key # None

----------------------------------------------------------------------------
(* C13 *)

\* the application is up, and its load at startup failed the integrity check
StartupLoadFailed ==
    /\ app_running
    /\ lastCall.op = "main"
    /\ ~lastCall.success
    /\ lastCall.message = <<"InvalidTag">>

\* the store of a first start: no users, the default configuration
FreshStore == DataModel(CURRENT_VERSION, <<>>, SystemConfig)

\* the three queries answer as they do on a freshly initialised store
AnswersAsFreshStore ==
    /\ FileRepository_get_all_users(data_model)
         = FileRepository_get_all_users(FreshStore)
    /\ \A username \in UsernameInputs :
           FileRepository_get_user_by_username(data_model, username)
             = FileRepository_get_user_by_username(FreshStore, username)
    /\ FileRepository_get_system_config(data_model)
         = FileRepository_get_system_config(FreshStore)

\* C13 (as claimed): after the load at startup has failed with an integrity
\* error, get_all_users, get_user_by_username and get_system_config do not
\* answer as a freshly initialised store would.
C13_FailedLoadIsNotAnEmptyStore ==
    StartupLoadFailed => ~AnswersAsFreshStore

----------------------------------------------------------------------------
(* C14 *)

\* C14 (as claimed): a User or SystemConfig obtained from the store is a
\* copy: assigning to its fields does not change the in-memory DataModel,
\* which changes only through save_user, update_user, delete_user and
\* save_system_config.
C14_ObtainedRecordsAreCopies ==
    [][lastCall'.op = "set field" => data_model' = data_model]_vars

----------------------------------------------------------------------------
(* C15 *)

\* the service calls that end in save_user, update_user, delete_user or
\* save_system_config
StoreWriteOps ==
    {"register_user", "register_user_with_face", "reset_user_face", "delete_user",
     "set_force_mfa", "set_face_threshold", "change_password"}

\* what a new repository holds after load_data of the store file as it is
LoadedAfresh ==
    FileRepository_load_data([St EXCEPT !.dm = NoDataModel, !.next = 1,
                                        !.key = None], data_key)

\* C15: after every successful save_user, update_user, delete_user and
\* save_system_config the store file decrypts to exactly the in-memory
\* DataModel, and loading it into a new repository gives the same users and
\* configuration.
C15_FileEqualsMemoryAfterWrite ==
    (lastCall.op \in StoreWriteOps /\ lastCall.success)
    => /\ data_bin.exists
       /\ decrypt_aes_gcm(data_key, data_bin).exc = "none"
       /\ decrypt_aes_gcm(data_key, data_bin).plaintext
            = DataModel_to_dict(data_model)
       /\ LoadedAfresh.exc = "none"
       /\ LoadedAfresh.st.dm = data_model

\* a delete has just succeeded on a store that keeps a user and a changed
\* configuration, and the file holds just that
C15_Witness ==
    /\ lastCall.op = "delete_user"
    /\ lastCall.success
    /\ Len(data_model.users) = 1
    /\ ~data_model.config.force_mfa
    /\ Len(data_bin.plaintext.users) = 1
    /\ ~data_bin.plaintext.config.force_mfa

----------------------------------------------------------------------------
(* C16 *)

\* the last call loaded a store file that decrypts to a record of a schema
\* version later than this program's
LoadedLaterVersion ==
    /\ lastCall.op \in LoadOps
    /\ data_bin.exists
    /\ decrypt_aes_gcm(data_key, data_bin).exc = "none"
    /\ decrypt_aes_gcm(data_key, data_bin).plaintext.version > CURRENT_VERSION

\* C16 (as claimed): loading a decrypted record whose version is greater
\* than the current schema version fails with a fatal error: migrate never
\* returns such a record and load_data never builds a DataModel from it.
C16_LaterVersionFailsToLoad ==
    LoadedLaterVersion
    => /\ ~lastCall.success
       /\ SchemaMigration_migrate(data_bin.plaintext).version <= CURRENT_VERSION
       /\ ~(data_model.present /\ data_model.version > CURRENT_VERSION)

----------------------------------------------------------------------------
(* C17 *)

\* C17 (as claimed): after the shutdown handler has run (clear_cached_key),
\* no component of the process still holds the data key: neither the key
\* manager's cache nor the repository's key slot.
C17_NoKeyAfterShutdown ==
    lastCall.op = "on_closing"
    => /\ cached_data_key = None
       /\ data_key = None

----------------------------------------------------------------------------
(* C18 *)

\* the last call is a login whose face capture the user aborted (ESC)
CaptureAborted ==
    /\ lastCall.op = "authenticate_user"
    /\ lastCall.capture.kind = "error"
    /\ lastCall.capture.reason = "User cancelled capture"

\* C18: when the user aborts the face capture during authenticate_user, the
\* call returns a failure that is not the face-mismatch result, and writes no
\* FAIL_FACE_MISMATCH event.
C18_AbortedCaptureIsNotAMismatch ==
    CaptureAborted
    => /\ ~lastCall.success
       /\ ~IsFaceMismatch(lastCall.message)
       /\ lastCall.message = <<"face capture failed", "User cancelled capture">>
       /\ ~LoggedByCall("FAIL_FACE_MISMATCH")

\* an enrolled user with the right password has just aborted the capture
C18_Witness ==
    /\ CaptureAborted
    /\ LoginWithCorrectPassword
    /\ Enrolled(UserNamed(strip(lastCall.username)))
    /\ ~lastCall.success

----------------------------------------------------------------------------
(* C19 *)

\* in store dm a user has that name and that password
HasPassword(dm, name, password) ==
    \E i \in 1..Len(dm.users) :
        /\ dm.users[i].username = name
        /\ CorrectPassword(dm.users[i], password)

ChangeSucceeds == lastCall'.op = "change_password" /\ lastCall'.success

\* C19: change_password(u, old, new) succeeds only when old is the current
\* password of the existing user u, new has at least 6 characters and
\* new # old; after a success authenticate_password_only(u, new) succeeds
\* and authenticate_password_only(u, old) fails.
C19_ChangePasswordContract ==
    [][ChangeSucceeds
         => LET u == lastCall'.username
                old == lastCall'.password
                new == lastCall'.arg
            IN  /\ HasPassword(data_model, strip(u), old)
                /\ Len(new) >= 6
                /\ new # old
                /\ authenticate_password_only(St', u, new).ret.success
                /\ ~authenticate_password_only(St', u, old).ret.success]_vars

\* a password change has just succeeded, and the user now has the new one
C19_Witness ==
    /\ lastCall.op = "change_password"
    /\ lastCall.success
    /\ lastCall.arg = Pwd2
    /\ HasPassword(data_model, strip(lastCall.username), Pwd2)
    /\ ~HasPassword(data_model, strip(lastCall.username), Pwd1)

----------------------------------------------------------------------------
(* C20 *)

OnlyBlanks(s) == \A i \in 1..Len(s) : s[i] = " "

\* a register_user with an empty or whitespace-only username or a password
\* shorter than 6
InvalidRegistration ==
    /\ lastCall'.op = "register_user"
    /\ \/ OnlyBlanks(lastCall'.username)
       \/ Len(lastCall'.password) < 6

\* a change_password with a wrong old password, a new password shorter than
\* 6, or a new password equal to the old one
InvalidPasswordChange ==
    /\ lastCall'.op = "change_password"
    /\ \/ ~HasPassword(data_model, strip(lastCall'.username), lastCall'.password)
       \/ Len(lastCall'.arg) < 6
       \/ lastCall'.arg = lastCall'.password

\* C20: register_user with an empty or whitespace-only username or a password
\* shorter than 6 characters, and change_password with a wrong old password,
\* a new password shorter than 6 or a new password equal to the old one,
\* return a failure and leave the user collection, the configuration and the
\* store file unchanged.
C20_RejectedInputChangesNothing ==
    [][(InvalidRegistration \/ InvalidPasswordChange)
         => /\ ~lastCall'.success
            /\ data_model' = data_model
            /\ data_bin' = data_bin]_vars

\* a registration under a username of blanks only has just been refused,
\* with a user in the store
C20_Witness ==
    /\ lastCall.op = "register_user"
    /\ lastCall.username = <<" ">>
    /\ lastCall.password = Pwd1
    /\ ~lastCall.success
    /\ Len(data_model.users) > 0
    /\ data_bin.plaintext = DataModel_to_dict(data_model)

\* a password change with a wrong old password has just been refused
C20_WitnessChange ==
    /\ lastCall.op = "change_password"
    /\ ~lastCall.success
    /\ CountNamed(data_model, strip(lastCall.username)) = 1
    /\ lastCall.password # <<>>
    /\ ~HasPassword(data_model, strip(lastCall.username), lastCall.password)
    /\ Len(lastCall.arg) >= 6
    /\ lastCall.arg # lastCall.password

----------------------------------------------------------------------------
(* C21 *)

\* every stored user of dm with face_enabled has a face template
TemplatesPresent(dm) ==
    \A i \in 1..Len(dm.users) :
        dm.users[i].face_enabled => dm.users[i].face_embedding # <<>>

\* C21: whatever register_user, register_user_with_face, change_password,
\* reset_user_face and delete_user have done, every stored user with
\* face_enabled = true has a non-empty face template; reset_user_face clears
\* the flag and the template together, in memory and in the store file.
C21_FaceEnabledHasTemplate ==
    /\ TemplatesPresent(data_model)
    /\ data_bin.exists => TemplatesPresent(DataModel_from_dict(data_bin.plaintext))
    /\ (lastCall.op = "reset_user_face" /\ lastCall.success)
       => \A dm \in {data_model, DataModel_from_dict(data_bin.plaintext)} :
              \A i \in 1..Len(dm.users) :
                  dm.users[i].username = lastCall.username
                  => /\ ~dm.users[i].face_enabled
                     /\ dm.users[i].face_embedding = <<>>

\* a reset has just cleared one user while another one stays enrolled
C21_Witness ==
    /\ lastCall.op = "reset_user_face"
    /\ lastCall.success
    /\ \E i, j \in 1..Len(data_model.users) :
           /\ data_model.users[i].username = lastCall.username
           /\ ~data_model.users[i].face_enabled
           /\ data_model.users[j].face_enabled
           /\ data_model.users[j].face_embedding # <<>>

----------------------------------------------------------------------------
(* C22 *)

\* a threshold in [0,1] (in hundredths)
InUnitInterval(threshold) ==
    threshold # NaN /\ 0 <= threshold /\ threshold <= 100

\* C22 (as claimed): in every state reached from the default configuration
\* through set_face_threshold and set_force_mfa the stored face_threshold
\* lies in [0,1]; set_face_threshold with a value outside [0,1] returns False
\* and leaves the configuration and the store file unchanged.
C22_ThresholdStaysInUnitInterval ==
    /\ [](/\ data_model.present => InUnitInterval(data_model.config.face_threshold)
          /\ data_bin.exists
               => InUnitInterval(data_bin.plaintext.config.face_threshold))
    /\ [][(lastCall'.op = "set_face_threshold" /\ ~InUnitInterval(lastCall'.arg))
            => /\ ~lastCall'.success
               /\ data_model' = data_model
               /\ data_bin' = data_bin]_vars

----------------------------------------------------------------------------
(* C23 *)

\* the last call was a load_data that failed with the integrity error
LoadJustFailed ==
    /\ lastCall.op \in LoadOps
    /\ ~lastCall.success
    /\ lastCall.message = <<"InvalidTag">>

\* C23 (as claimed): after a load_data call has failed with an integrity
\* error, no later store operation overwrites the store file: the corrupted
\* file keeps its content, also when the repository had loaded the store
\* successfully before the failed load.
C23_CorruptedFileIsNotOverwritten ==
    [][LoadJustFailed => data_bin' = data_bin]_vars

----------------------------------------------------------------------------
(* C24 *)

\* the audit events a call of register_user or authenticate_password_only
\* raises: one for a registration that succeeds, one for a login that reaches
\* the lookup
EventsRaised(call) ==
    IF call.op = "register_user"
    THEN IF call.success THEN 1 ELSE 0
    ELSE IF call.username = <<>> \/ call.password = <<>> THEN 0 ELSE 1

\* C24 (as claimed): the audit log is append-only with one line per event:
\* each audit event adds exactly one line and leaves all earlier lines
\* unchanged, for every username that the login and registration operations
\* pass to the log.
C24_OneLinePerEvent ==
    [][lastCall'.op \in {"register_user", "authenticate_password_only"}
         => /\ IsPrefix(auth_log, auth_log')
            /\ Len(auth_log') = Len(auth_log) + EventsRaised(lastCall')]_vars

----------------------------------------------------------------------------
(* C25 *)

\* the password opens the credential in the file
OpensAdminKey(key, password) ==
    key.hash = b64encode(derive_key_from_password(password, b64decode(key.salt),
                                                  PBKDF2_ITERATIONS))

\* C25: init_admin_key creates the admin credential only when none exists (it
\* returns true exactly then, and the file exists afterwards), and once the
\* credential file exists no call of init_admin_key or admin_login, whatever
\* it returns, changes its content.
C25_AdminKeyWrittenOnce ==
    [][/\ admin_key.exists => admin_key' = admin_key
       /\ lastCall'.op = "init_admin_key"
            => /\ lastCall'.success = ~admin_key.exists
               /\ admin_key'.exists
               /\ ~admin_key.exists => OpensAdminKey(admin_key', lastCall'.password)
       /\ lastCall'.op = "admin_login"
            => /\ admin_key'.exists
               /\ ~admin_key.exists
                    => OpensAdminKey(admin_key', DEFAULT_ADMIN_PASSWORD)]_vars

\* init_admin_key has just been refused on an existing credential that its
\* password would not open
C25_Witness ==
    /\ lastCall.op = "init_admin_key"
    /\ ~lastCall.success
    /\ admin_key.exists
    /\ ~OpensAdminKey(admin_key, lastCall.password)

----------------------------------------------------------------------------
(* C26 *)

MutatingOps == {"register_user", "change_password", "register_user_with_face",
                "reset_user_face", "delete_user", "set_force_mfa",
                "set_face_threshold"}

\* C26 (as claimed): if writing the store file fails during a mutating
\* operation, the operation reports failure and the in-memory DataModel and
\* the id counter are as they were before the operation.
C26_FailedWriteChangesNothing ==
    [][(~data_bin_writable /\ lastCall'.op \in MutatingOps)
         => /\ ~lastCall'.success
            /\ data_model' = data_model
            /\ next_user_id' = next_user_id]_vars

----------------------------------------------------------------------------
(* C27 *)

\* register_user_with_face has just returned failure because face recognition
\* is unavailable or the capture failed or was cancelled
FaceRegistrationJustFailed ==
    /\ lastCall.op = "register_user_with_face"
    /\ ~lastCall.success
    /\ lastCall.message # <<>>
    /\ lastCall.message[1] \in {"face recognition unavailable",
                                "face capture failed"}

\* C27 (as claimed): register_user_with_face is all-or-nothing: when it
\* returns failure because face recognition is unavailable or the capture
\* fails or is cancelled, no user record with that username is left in the
\* store (in memory or in the file).
C27_FaceRegistrationAllOrNothing ==
    FaceRegistrationJustFailed
      => /\ CountNamed(data_model, strip(lastCall.username)) = 0
         /\ data_bin.exists /\ ~data_bin.tampered
              => CountNamed(data_bin.plaintext, strip(lastCall.username)) = 0

----------------------------------------------------------------------------
(* C28 *)

NotEnrolled(name) == Registered(name) /\ ~UserNamed(name).face_enabled

\* no step gives face data to a user who is registered without it
FaceFlagSetOnlyAtRegistration ==
    [][\A name \in UsernameInputs :
         (NotEnrolled(name) /\ Registered(name)') => NotEnrolled(name)']_vars

\* C28 (as claimed): face enrolment stays reachable for an existing user: a
\* registered user with face_enabled = false comes, by public operations that
\* do not delete the user, to have face_enabled = true with a stored template.
C28_EnrolmentReachable ==
    \A name \in UsernameInputs :
        NotEnrolled(name) ~> (Registered(name) /\ Enrolled(UserNamed(name)))

----------------------------------------------------------------------------
(* C29 *)

LoginOps == {"authenticate_password_only", "authenticate_user"}

\* C29: a login attempt changes nothing but the audit log: for every outcome
\* of authenticate_password_only and authenticate_user, the user collection
\* with every user's salt, hash and face data, the config, the id counter
\* and the store file are the same after the call as before it.
C29_LoginChangesOnlyTheLog ==
    [][lastCall'.op \in LoginOps
         => /\ data_model' = data_model
            /\ next_user_id' = next_user_id
            /\ data_bin' = data_bin
            /\ data_key' = data_key]_vars

\* a login of a registered user has just succeeded and is in the log
C29_Witness ==
    /\ lastCall.op \in LoginOps
    /\ lastCall.success
    /\ Registered(strip(lastCall.username))
    /\ Len(auth_log) > lastCall.log_before

----------------------------------------------------------------------------
(* C30 *)

Min(a, b) == IF a <= b THEN a ELSE b

\* the last k lines of a log, in their order
LastLines(lines, k) == SubSeq(lines, Len(lines) - k + 1, Len(lines))

\* C30 (as claimed): for every log of n lines and every count >= 0,
\* get_recent_logs(count) returns the last min(count, n) lines of the log in
\* their original order, so it never returns more than count lines.
C30_RecentLogsAreTheLastCount ==
    lastCall.op = "view_auth_logs"
      => /\ lastCall.message = LastLines(auth_log, Min(lastCall.arg, Len(auth_log)))
         /\ Len(lastCall.message) <= lastCall.arg

====
